---------------------------- MODULE Spec2Model ----------------------------
(***************************************************************************)
(* openapi-merger: the reference/include resolution engine (Merger) and    *)
(* the URL download cache, as a state machine.                             *)
(*                                                                         *)
(* A document node is a pair <<kind, payload>>:                            *)
(*   <<"str", s>>      a scalar                                            *)
(*   <<"null", "">>    YAML null / an empty document                       *)
(*   <<"undef", "">>   JavaScript undefined                                *)
(*   <<"map", es>>     a mapping; es is the sequence of <<key, node>> in   *)
(*                     insertion order (what Object.entries yields)        *)
(*   <<"arr", es>>     an Array; es holds <<index key, node>> in index     *)
(*                     order followed by named properties                  *)
(*   <<"inc", es>>     an IncludedArray (subclass of Array)                *)
(***************************************************************************)
EXTENDS Naturals, Sequences, FiniteSets, TLC

(***************************************************************************)
(* Bounds of the model.                                                    *)
(***************************************************************************)
\* deepest call stack followed before the run is declared divergent
MaxDepth == 12
\* merge invocations made by one process
MaxMerges == 2

---------------------------------------------------------------------------
(* Document nodes *)

\* Op applied to the values of its arguments, each computed once
Let1(e, Op(_)) == CHOOSE r \in {Op(x) : x \in {e}} : TRUE
Let2(e1, e2, Op(_, _)) == CHOOSE r \in {Op(x, y) : x \in {e1}, y \in {e2}} : TRUE
Let3(e1, e2, e3, Op(_, _, _)) ==
  CHOOSE r \in {Op(x, y, z) : x \in {e1}, y \in {e2}, z \in {e3}} : TRUE

Str(s) == <<"str", s>>
Map(es) == <<"map", es>>
Arr(es) == <<"arr", es>>
Null == <<"null", "">>
Undef == <<"undef", "">>
EmptyMap == <<"map", <<>>>>
EmptyArr == <<"arr", <<>>>>

Kind(n) == n[1]
Ents(n) == n[2]
\* lodash isObject / isArray
IsObject(n) == Kind(n) \in {"map", "arr", "inc"}
IsArray(n) == Kind(n) \in {"arr", "inc"}
\* JavaScript truthiness of a parsed document
Truthy(n) == IsObject(n) \/ (Kind(n) = "str" /\ n[2] # "")

IdxKeys == <<"0", "1", "2", "3", "4", "5", "6", "7">>
IsIdx(k) == \E i \in DOMAIN IdxKeys : IdxKeys[i] = k
\* the 0-based index an index key denotes
IdxOf(k) == (CHOOSE i \in DOMAIN IdxKeys : IdxKeys[i] = k) - 1
IdxKey(i) == IdxKeys[i + 1]

Keys(n) ==
  Let1(n, LAMBDA n1 : IF IsObject(n1) THEN {Ents(n1)[i][1] : i \in DOMAIN Ents(n1)} ELSE {})
Has(n, k) == k \in Keys(n)
Get(n, k) ==
  Let2(n, k, LAMBDA n1, k1 :
    IF Has(n1, k1)
    THEN Ents(n1)[CHOOSE j \in DOMAIN Ents(n1) : Ents(n1)[j][1] = k1][2]
    ELSE Undef)

SelectSeqIdx(es) == SelectSeq(es, LAMBDA e : IsIdx(e[1]))
SelectSeqProps(es) == SelectSeq(es, LAMBDA e : ~IsIdx(e[1]))

\* Array length: one more than the largest index present
ArrLen(n) ==
  Let1(SelectSeqIdx(Ents(n)), LAMBDA es :
  Let1({IdxOf(es[i][1]) : i \in DOMAIN es}, LAMBDA ix :
    IF ix = {} THEN 0 ELSE 1 + (CHOOSE m \in ix : \A x \in ix : x <= m)))

\* obj[k] = v.  A mapping keeps insertion order; an array keeps its index
\* keys in ascending order ahead of its named properties.
Put(n, k, v) ==
  Let3(n, k, v, LAMBDA n1, k1, v1 :
  Let1(Ents(n1), LAMBDA es :
    IF Has(n1, k1)
    THEN <<Kind(n1), [i \in DOMAIN es |-> IF es[i][1] = k1 THEN <<k1, v1>> ELSE es[i]]>>
    ELSE IF IsArray(n1) /\ IsIdx(k1)
    THEN <<Kind(n1),
           SelectSeq(es, LAMBDA e : IsIdx(e[1]) /\ IdxOf(e[1]) < IdxOf(k1))
             \o <<<<k1, v1>>>>
             \o SelectSeq(es, LAMBDA e : ~IsIdx(e[1]) \/ IdxOf(e[1]) > IdxOf(k1))>>
    ELSE <<Kind(n1), Append(es, <<k1, v1>>)>>))

\* delete obj[k]
Del(n, k) == Let1(n, LAMBDA n1 : <<Kind(n1), SelectSeq(Ents(n1), LAMBDA e : e[1] # k)>>)

\* Array.prototype.concat: a new array of the receiver's class, the
\* argument's elements re-indexed after the receiver's
Concat(a, b) ==
  Let2(a, SelectSeqIdx(Ents(b)), LAMBDA a1, eb :
  Let1(ArrLen(a1), LAMBDA len :
    <<Kind(a1),
      SelectSeqIdx(Ents(a1))
        \o [i \in DOMAIN eb |-> <<IdxKey(IdxOf(eb[i][1]) + len), eb[i][2]>>]>>))

\* IncludedArray.from(array): a dense copy, holes read as undefined
IncludedArrayFrom(a) ==
  Let1(a, LAMBDA a1 :
    <<"inc", [i \in 1..ArrLen(a1) |-> <<IdxKey(i - 1), Get(a1, IdxKey(i - 1))>>]>>)

---------------------------------------------------------------------------
(* lodash merge, and the helpers of ./util *)

RECURSIVE LodashMerge(_, _), MergeEntries(_, _, _)
\* _.merge(dst, src): src's keys are merged into dst in src's key order;
\* arrays and plain objects recursively, any other value by assignment; an
\* undefined source value never replaces an existing destination value
LodashMerge(dst, src) ==
  Let2(dst, src, LAMBDA dst1, src1 :
  Let1(IF IsObject(dst1) THEN dst1 ELSE EmptyMap, LAMBDA d :
    IF IsObject(src1) THEN MergeEntries(d, Ents(src1), 1) ELSE d))

MergeEntries(d, es, i) ==
  Let2(d, es, LAMBDA d1, es1 :
    IF i > Len(es1) THEN d1
    ELSE Let3(es1[i][1], es1[i][2], Get(d1, es1[i][1]), LAMBDA k, sv, ov :
         Let1(IF IsArray(sv) THEN LodashMerge(IF IsArray(ov) THEN ov ELSE EmptyArr, sv)
              ELSE IF Kind(sv) = "map"
              THEN LodashMerge(IF IsObject(ov) THEN ov ELSE EmptyMap, sv)
              ELSE sv, LAMBDA nv :
           MergeEntries(IF Kind(sv) = "undef" /\ Has(d1, k) THEN d1 ELSE Put(d1, k, nv),
                        es1, i + 1))))

\* util.mergeOrOverwrite(a, b): two sequences concatenate, two objects merge
\* recursively key by key, anything else is overwritten by the later value
MergeOrOverwrite(a, b) ==
  Let2(a, b, LAMBDA a1, b1 :
    IF IsArray(a1) /\ IsArray(b1) THEN Concat(a1, b1)
    ELSE IF IsObject(a1) /\ IsObject(b1) THEN LodashMerge(a1, b1)
    ELSE b1)

\* the canonical local pointers, #/components/<class>/<name>
PointerTable ==
  {[s |-> "#/components/" \o t \o "/" \o n, path |-> <<"components", t, n>>]
      : t \in {"schemas", "responses", "unknown"},
        n \in {"a", "a_", "b", "m", "m_", "undefined"}}

IsPointer(s) == Let1(s, LAMBDA s1 : \E x \in PointerTable : x.s = s1)

\* the keys a fragment walks through
HashPath(h) ==
  Let1(h, LAMBDA h1 :
    CASE h1 = "#/X" -> <<"X">>
      [] h1 = "#/Y" -> <<"Y">>
      [] IsPointer(h1) -> (CHOOSE x \in PointerTable : x.s = h1).path
      [] OTHER -> <<>>)

RECURSIVE Navigate(_, _, _)
Navigate(n, p, i) ==
  Let2(n, p, LAMBDA n1, p1 : IF i > Len(p1) THEN n1 ELSE Navigate(Get(n1, p1[i]), p1, i + 1))

\* util.sliceObject(content, hash): the node the fragment points at
SliceObject(content, h) == Navigate(content, HashPath(h), 1)

(* Locator: util.parseUrl over the target strings the documents use *)
FileNames == {"root.yaml", "a.yaml", "b.yaml", "m.yaml", "m2.yaml", "arr.yaml", "m*.yaml"}
Hashes == {"", "#/", "#/X", "#/Y"}
HttpDir == "http://h/"

UrlTable ==
  {[s |-> "./" \o f \o h, kind |-> "rel", name |-> f, base |-> "./" \o f, hash |-> h]
      : f \in FileNames, h \in Hashes}
  \cup {[s |-> f \o h, kind |-> "rel", name |-> f, base |-> f, hash |-> h]
      : f \in FileNames, h \in Hashes}
  \cup {[s |-> "/" \o f \o h, kind |-> "abs", name |-> f, base |-> "/" \o f, hash |-> h]
      : f \in FileNames, h \in Hashes}
  \cup {[s |-> HttpDir \o f \o h, kind |-> "http", name |-> f, base |-> HttpDir \o f, hash |-> h]
      : f \in FileNames, h \in Hashes}
  \cup {[s |-> h, kind |-> "local", name |-> "", base |-> "", hash |-> h]
      : h \in (Hashes \ {""}) \cup {x.s : x \in PointerTable}}

\* a string the table does not hold names a file of its own
ParseUrl(s) ==
  Let1(s, LAMBDA s1 :
  Let1({x \in UrlTable : x.s = s1}, LAMBDA found :
  Let1(IF found # {}
       THEN CHOOSE x \in found : TRUE
       ELSE [s |-> s1, kind |-> "rel", name |-> s1, base |-> s1, hash |-> ""], LAMBDA r :
    [href |-> s1, isHttp |-> r.kind = "http", isLocal |-> r.kind = "local",
     hrefWoHash |-> r.base, hash |-> r.hash, name |-> r.name])))

\* url.resolve(dirname(file) + "/", val) for a containing URL, and
\* posix.join(posix.dirname(file), val) for a containing local file: every
\* file of a document graph lives in one directory
ResolveTarget(pFile, val) ==
  Let1(ParseUrl(val), LAMBDA r :
    IF pFile.isHttp THEN HttpDir \o r.name \o r.hash ELSE "/" \o r.name \o r.hash)

\* path.basename(p, path.extname(p))
BaseName(name) ==
  Let1(name, LAMBDA n1 :
    CASE n1 = "a.yaml" -> "a"
      [] n1 = "b.yaml" -> "b"
      [] n1 = "m.yaml" -> "m"
      [] n1 = "m2.yaml" -> "m2"
      [] n1 = "arr.yaml" -> "arr"
      [] n1 = "root.yaml" -> "root"
      [] OTHER -> n1)

---------------------------------------------------------------------------
(* ./ref: the class of a reference directive *)

RECURSIVE LastMarker(_, _)
LastMarker(path, i) ==
  IF i = 0 THEN "unknown"
  ELSE CASE path[i] = "schema" -> "schemas"
         [] path[i] = "response" -> "responses"
         [] OTHER -> LastMarker(path, i - 1)

EndsWithMapping(path) ==
  Len(path) >= 2 /\ path[Len(path) - 1] = "discriminator" /\ path[Len(path)] = "mapping"

\* ref.getRefType(jsonPath): the class the path puts the directive in
GetRefType(path) == IF EndsWithMapping(path) THEN "mapping" ELSE LastMarker(path, Len(path))

\* ref.shouldInclude(refType): discriminator mappings are resolved inline
ShouldInclude(refType) == refType = "mapping"

---------------------------------------------------------------------------
(* ./components: ComponentManager and ComponentNameResolver *)

\* the name of a component no resolver has named
NoName == "undefined"

\* ComponentManager.get(url) as an index into the components, 0 when absent
CmpIndex(cs, url) ==
  Let2(cs, url, LAMBDA cs1, url1 :
    IF \E i \in DOMAIN cs1 : cs1[i].url = url1
    THEN CHOOSE i \in DOMAIN cs1 : cs1[i].url = url1
    ELSE 0)

\* ComponentManager.exists(url)
Exists(cs, url) == CmpIndex(cs, url) # 0

\* Component.getLocalRef()
GetLocalRef(c) == "#/components/" \o c.type \o "/" \o c.name

\* the candidate name of a target: its last path segment before the
\* fragment, extension stripped
CandidateName(url) == BaseName(ParseUrl(url).name)

RECURSIVE Disambiguate(_, _)
Disambiguate(name, taken) ==
  Let2(name, taken, LAMBDA n1, t1 :
    IF n1 \in t1 THEN Disambiguate(n1 \o "_", t1) ELSE n1)

RECURSIVE AssignNames(_, _, _)
AssignNames(cs, i, acc) ==
  Let2(cs, acc, LAMBDA cs1, acc1 :
    IF i > Len(cs1) THEN acc1
    ELSE Let1({acc1[j].name : j \in {k \in DOMAIN acc1 : acc1[k].type = cs1[i].type}},
              LAMBDA taken :
         Let1(Disambiguate(CandidateName(cs1[i].url), taken), LAMBDA nm :
           AssignNames(cs1, i + 1,
                       Append(acc1, [type |-> cs1[i].type, url |-> cs1[i].url,
                                     name |-> nm])))))

\* new ComponentNameResolver(components): a name for every component of the
\* finished first pass, in registration order
ComponentNameResolver(cs) == AssignNames(cs, 1, <<>>)

\* the resolver's name for a target; a pass without resolver, or a target
\* the resolver never saw, has none
ResolveName(res, url) ==
  Let2(res, url, LAMBDA res1, url1 :
    IF \E i \in DOMAIN res1 : res1[i].url = url1
    THEN res1[CHOOSE i \in DOMAIN res1 : res1[i].url = url1].name
    ELSE NoName)

RECURSIVE SectionFrom(_, _, _)
SectionFrom(cs, i, sec) ==
  Let2(cs, sec, LAMBDA cs1, sec1 :
    IF i > Len(cs1) THEN sec1
    ELSE Let1(IF Has(sec1, cs1[i].type) THEN Get(sec1, cs1[i].type) ELSE EmptyMap,
              LAMBDA grp :
           SectionFrom(cs1, i + 1,
                       Put(sec1, cs1[i].type, Put(grp, cs1[i].name, cs1[i].content)))))

\* ComponentManager.getComponentsSection(): class -> name -> content
GetComponentsSection(cs) == SectionFrom(cs, 1, EmptyMap)

---------------------------------------------------------------------------
(* ./http: download(url) and its module-level cache *)

Urls == {HttpDir \o f : f \in {"a.yaml", "b.yaml", "m.yaml"}}

\* what one network request can end in: no connection, a non-success
\* status, a body that fails while it is read, a body
Outcomes == {"connErr", "notOk", "bodyErr", "ok"}

\* download(url) against cache c when the network answers `o` with `body`:
\* whether it throws, what it returns, the cache it leaves, and whether it
\* issued a request
DownloadMiss(c, url) == ~Truthy(c[url])

\* a download that hands out the cached object itself
CloneDeepNot(v) == [val |-> v, alias |-> TRUE]

\* lodash cloneDeep(v): an equal value in objects of its own (alias: the
\* result is the very object it was given)
CloneDeep(v) == [val |-> v, alias |-> FALSE]

\* a download whose fetching call hands out an empty document and caches the
\* fetched one
DownloadLate(c, url, o, body) ==
  Let3(c, url, body, LAMBDA c1, url1, body1 :
    IF ~DownloadMiss(c1, url1)
    THEN [throws |-> FALSE, result |-> c1[url1], alias |-> FALSE, cache |-> c1,
          requested |-> FALSE]
    ELSE IF o \in {"connErr", "notOk"}
    THEN [throws |-> FALSE, result |-> EmptyMap, alias |-> FALSE, cache |-> c1,
          requested |-> TRUE]
    ELSE IF o = "bodyErr"
    THEN [throws |-> TRUE, result |-> Undef, alias |-> FALSE, cache |-> c1,
          requested |-> TRUE]
    ELSE [throws |-> FALSE, result |-> EmptyMap, alias |-> FALSE,
          cache |-> [c1 EXCEPT ![url1] = body1], requested |-> TRUE])

Download(c, url, o, body) ==
  Let3(c, url, body, LAMBDA c1, url1, body1 :
    IF ~DownloadMiss(c1, url1)
    THEN Let1(CloneDeep(c1[url1]), LAMBDA cl :
           [throws |-> FALSE, result |-> cl.val, alias |-> cl.alias, cache |-> c1,
            requested |-> FALSE])
    ELSE IF o \in {"connErr", "notOk"}
    THEN [throws |-> FALSE, result |-> EmptyMap, alias |-> FALSE, cache |-> c1,
          requested |-> TRUE]
    ELSE IF o = "bodyErr"
    THEN [throws |-> TRUE, result |-> Undef, alias |-> FALSE, cache |-> c1,
          requested |-> TRUE]
    ELSE Let1(CloneDeep(body1), LAMBDA cl :
           [throws |-> FALSE, result |-> cl.val, alias |-> cl.alias,
            cache |-> [c1 EXCEPT ![url1] = body1], requested |-> TRUE]))

---------------------------------------------------------------------------
(* processInclude and getIncludeClass *)

\* getIncludeClass(key): the .<class> suffix of an include key, "" if none
GetIncludeClass(key) ==
  IF key = "$include.cls" THEN "cls" ELSE ""

\* Merger.isInclude(key): key matches INCLUDE_PATTERN
IsInclude(key) == key \in {"$include", "$include#b", "$include.cls"}

\* Merger.isRef(key, jsonPath)
IsRef(key, path) == key = "$ref" \/ EndsWithMapping(path)

\* util.filterObject, appendObjectKeys, prependObjectKeys on the top-level
\* keys of an included mapping
FilterObject(obj, flt) ==
  Let2(obj, flt, LAMBDA obj1, flt1 :
    IF IsObject(obj1) /\ Kind(flt1) = "str"
    THEN <<Kind(obj1), SelectSeq(Ents(obj1), LAMBDA e : e[1] = flt1[2])>>
    ELSE obj1)

RenameKeys(obj, pre, suf) ==
  Let3(obj, pre, suf, LAMBDA obj1, pre1, suf1 :
    IF IsObject(obj1)
    THEN <<Kind(obj1),
           [i \in DOMAIN Ents(obj1) |->
              <<pre1 \o Ents(obj1)[i][1] \o suf1, Ents(obj1)[i][2]>>]>>
    ELSE obj1)

AppendObjectKeys(obj, prefix) ==
  Let1(prefix, LAMBDA p1 : IF Kind(p1) = "str" THEN RenameKeys(obj, p1[2], "") ELSE obj)

PrependObjectKeys(obj, suffix) ==
  Let1(suffix, LAMBDA s1 : IF Kind(s1) = "str" THEN RenameKeys(obj, "", s1[2]) ELSE obj)

\* processInclude(key, obj, config): [throws, result].  Reading
\* config.include[clazz] is a TypeError when config has no include key.
ProcessInclude(key, obj, cfg) ==
  Let3(GetIncludeClass(key), obj, Get(cfg, "include"), LAMBDA clazz, obj1, inc :
  Let1(Get(inc, clazz), LAMBDA clazzConfig :
    IF clazz = "" THEN [throws |-> FALSE, result |-> obj1]
    ELSE IF Kind(inc) \in {"undef", "null"} THEN [throws |-> TRUE, result |-> Undef]
    ELSE IF ~Truthy(clazzConfig) THEN [throws |-> FALSE, result |-> obj1]
    ELSE [throws |-> FALSE,
          result |-> PrependObjectKeys(
                       AppendObjectKeys(FilterObject(obj1, Get(clazzConfig, "filter")),
                                        Get(clazzConfig, "prefix")),
                       Get(clazzConfig, "suffix"))]))

---------------------------------------------------------------------------
(* Document graphs: the files, the network resources and the glob matches  *)
(* a merge can meet, and the class configurations it can be built with     *)

M1(k1, v1) == Map(<<<<k1, v1>>>>)
M2(k1, v1, k2, v2) == Map(<<<<k1, v1>>, <<k2, v2>>>>)
M3(k1, v1, k2, v2, k3, v3) == Map(<<<<k1, v1>>, <<k2, v2>>, <<k3, v3>>>>)
A2(v1, v2) == Arr(<<<<"0", v1>>, <<"1", v2>>>>)
A3(v1, v2, v3) == Arr(<<<<"0", v1>>, <<"1", v2>>, <<"2", v3>>>>)
Ref(t) == M1("schema", M1("$ref", Str(t)))

RootPath == "/root.yaml"
UA == "http://h/a.yaml"
UB == "http://h/b.yaml"
UM == "http://h/m.yaml"

NoFiles == [p \in {} |-> Undef]
XY == M2("X", M1("v", Str("x")), "Y", M1("v", Str("y")))

CfgEmpty == EmptyMap
CfgNoClass == M1("include", EmptyMap)
CfgCls == M1("include", M1("cls", M1("prefix", Str("p_"))))

World(tag, root, files, net, glob, cfgs) ==
  [tag |-> tag, files |-> (RootPath :> root) @@ files, net |-> net, glob |-> glob,
   cfgs |-> cfgs]

Worlds ==
  << \* two spellings of one target, and two targets with one candidate name
     World("dedup",
           M3("p", Ref("./a.yaml#/X"), "q", Ref("a.yaml#/X"), "r", Ref("./a.yaml#/Y")),
           "/a.yaml" :> XY, NoFiles, <<>>, {CfgEmpty}),
     \* a target that references itself through an in-document pointer
     World("selfcycle",
           Ref("./a.yaml#/X"),
           "/a.yaml" :> M1("X", Ref("#/X")), NoFiles, <<>>, {CfgEmpty}),
     \* two targets that reference each other
     World("cycle",
           M2("p", Ref("./a.yaml#/X"), "q", Ref("./b.yaml#/X")),
           ("/a.yaml" :> M1("X", Ref("./b.yaml#/X"))) @@ ("/b.yaml" :> M1("X", Ref("./a.yaml#/X"))),
           NoFiles, <<>>, {CfgEmpty}),
     \* a whole file that references itself as "#/"
     World("wholecycle",
           Ref("./a.yaml"),
           "/a.yaml" :> M2("v", Str("x"), "w", Ref("#/")), NoFiles, <<>>, {CfgEmpty}),
     \* an include of a sequence: sole key, a key before it, a key after it
     World("arrsole",
           M1("k", M1("$include", Str("./arr.yaml"))),
           "/arr.yaml" :> A2(Str("p"), Str("q")), NoFiles, <<>>, {CfgEmpty}),
     World("arrbefore",
           M1("k", M2("other", Str("1"), "$include", Str("./arr.yaml"))),
           "/arr.yaml" :> A2(Str("p"), Str("q")), NoFiles, <<>>, {CfgEmpty}),
     World("arrafter",
           M1("k", M2("$include", Str("./arr.yaml"), "other", Str("1"))),
           "/arr.yaml" :> A2(Str("p"), Str("q")), NoFiles, <<>>, {CfgEmpty}),
     \* an include of a mapping with a conflicting sibling before / after it
     World("mapbefore",
           M1("k", M2("x", Str("sib"), "$include", Str("./m.yaml"))),
           "/m.yaml" :> M2("x", Str("inc"), "y", Str("inc")), NoFiles, <<>>, {CfgEmpty}),
     World("mapafter",
           M1("k", M2("$include", Str("./m.yaml"), "x", Str("sib"))),
           "/m.yaml" :> M2("x", Str("inc"), "y", Str("inc")), NoFiles, <<>>, {CfgEmpty}),
     \* an include with a class suffix, under every configuration
     World("classinc",
           M1("k", M1("$include.cls", Str("./m.yaml"))),
           "/m.yaml" :> M2("x", Str("inc"), "y", Str("inc")), NoFiles, <<>>,
           {CfgEmpty, CfgNoClass, CfgCls}),
     \* one URL included twice
     World("urltwice",
           M2("$include", Str(UM), "k", M1("$include", Str(UM))),
           NoFiles, UM :> M1("x", Str("inc")), <<>>, {CfgEmpty}),
     \* a URL whose body is an empty document, included twice
     World("urlempty",
           M2("$include", Str(UB), "k", M1("$include", Str(UB))),
           NoFiles, UB :> Null, <<>>, {CfgEmpty}),
     \* a URL reference whose content references two more targets
     World("urlref",
           Ref(UA),
           NoFiles,
           (UA :> M2("p", Ref("./m.yaml#/X"), "q", Ref("./m.yaml#/Y"))) @@ (UM :> XY),
           <<>>, {CfgEmpty}),
     \* two files that include each other
     World("inccycle",
           M1("$include", Str("./a.yaml")),
           ("/a.yaml" :> M1("$include", Str("./b.yaml"))) @@ ("/b.yaml" :> M1("$include", Str("./a.yaml"))),
           NoFiles, <<>>, {CfgEmpty}),
     \* a glob include
     World("glob",
           M1("k", M1("$include", Str("./m*.yaml"))),
           ("/m.yaml" :> M1("x", Str("1"))) @@ ("/m2.yaml" :> M1("y", Str("2"))),
           NoFiles, <<"m.yaml", "m2.yaml">>, {CfgEmpty}),
     \* a discriminator mapping, resolved inline
     World("mapping",
           M2("discriminator", M1("mapping", M1("dog", Str("#/X"))), "X", Null),
           NoFiles, NoFiles, <<>>, {CfgEmpty}),
     \* an include of a sequence as the last, and as a middle, element of a sequence
     World("seqlast",
           M1("k", A2(Str("a"), M1("$include", Str("./arr.yaml")))),
           "/arr.yaml" :> A2(Str("p"), Str("q")), NoFiles, <<>>, {CfgEmpty}),
     World("seqmid",
           M1("k", A3(Str("a"), M1("$include", Str("./arr.yaml")), Str("z"))),
           "/arr.yaml" :> A2(Str("p"), Str("q")), NoFiles, <<>>, {CfgEmpty}),
     \* a glob include with a class suffix
     World("globcls",
           M1("k", M1("$include.cls", Str("./m*.yaml"))),
           ("/m.yaml" :> M1("x", Str("1"))) @@ ("/m2.yaml" :> M1("y", Str("2"))),
           NoFiles, <<"m.yaml", "m2.yaml">>, {CfgNoClass, CfgCls}),
     \* an in-document include of a node that contains the include
     World("selfinc",
           M1("X", M1("$include", Str("#/X"))),
           NoFiles, NoFiles, <<>>, {CfgEmpty}) >>

---------------------------------------------------------------------------
(* The state *)

VARIABLES
  w,         \* the document graph being merged (an index into Worlds)
  config,    \* the configuration the Merger was constructed with
  pc,        \* "idle", "pass1", "pass2", "done", "error" or "diverged"
  stack,     \* the frames of the calls in progress, innermost last
  rv,        \* the value the call that just returned handed to its caller
  manager,   \* this.manager.components
  resolver,  \* the ComponentNameResolver of this.manager, <<>> in the first pass
  cache,     \* the module-level cache of ./http
  out,       \* the document merge returned
  err,       \* the error merge raised
  merges,    \* merge invocations started by this process
  net,       \* per URL: a request was issued / issued again (this invocation)
  dl,        \* the latest call of download: its URL, how the network answered, its result
  recursed,  \* the targets whose content was recursed into in this pass, in order
  input,     \* the root document object merge was called with, as its caller sees it
  prev,      \* the document the previous merge invocation returned, if it returned one
  answers    \* per URL: how the network answered the requests for it so far

vars == <<w, config, pc, stack, rv, manager, resolver, cache, out, err, merges, net, dl,
          recursed, input, prev, answers>>

NoRv == [on |-> FALSE, val |-> Undef, inplace |-> Undef]

F0 == [fn |-> "", at |-> "", obj |-> Undef, acc |-> Undef, i |-> 0, file |-> "",
       path |-> <<>>, key |-> "", val |-> Undef, content |-> Undef, gi |-> 0,
       next |-> "", curl |-> "", own |-> TRUE]

\* a mergeRefs that built its result in the node it was given
MergeRefsInPlace(obj, file, path) ==
  [F0 EXCEPT !.fn = "mergeRefs", !.at = "loop", !.obj = obj, !.acc = obj,
             !.i = 1, !.file = file, !.path = path, !.own = FALSE]

\* a call of mergeRefs(obj, file, jsonPath); line 61 makes ret a new object
\* of obj's shape (own: ret is not the node the call was given)
MergeRefsFrame(obj, file, path) ==
  [F0 EXCEPT !.fn = "mergeRefs", !.at = "loop", !.obj = obj,
             !.acc = IF IsArray(obj) THEN EmptyArr ELSE EmptyMap,
             !.i = 1, !.file = file, !.path = path, !.own = TRUE]

DirectiveFrame(fn, obj, key, val, file, path) ==
  [F0 EXCEPT !.fn = fn, !.at = "start", !.obj = obj, !.key = key, !.val = val,
             !.file = file, !.path = path]

Top == stack[Len(stack)]
Running == pc \in {"pass1", "pass2"} /\ stack # <<>>

NetIdle == [u \in Urls |-> [done |-> FALSE, again |-> FALSE]]
NoDl == [url |-> "", o |-> "", threw |-> FALSE, result |-> Undef, alias |-> FALSE]
\* the record of a call of download that ended as d
DlOf(url, o, d) ==
  Let1(d, LAMBDA d1 :
    [url |-> url, o |-> IF d1.requested THEN o ELSE "hit", threw |-> d1.throws,
     result |-> d1.result, alias |-> d1.alias])
\* the request log after a download of url that did or did not go to the network
NetAfter(n, url, requested) ==
  [n EXCEPT ![url] = [done |-> n[url].done \/ requested,
                      again |-> n[url].again \/ (requested /\ n[url].done)]]

\* a call that is not awaited: the caller goes on with its next key
CallNoWait(parent, callee) ==
  IF Len(stack) >= MaxDepth
  THEN pc' = "diverged" /\ UNCHANGED <<stack, rv, err>>
  ELSE /\ stack' = Append([stack EXCEPT ![Len(stack)] =
                             [parent EXCEPT !.at = "loop", !.i = parent.i + 1]], callee)
       /\ rv' = NoRv
       /\ UNCHANGED <<pc, err>>

\* `await callee`: the caller is suspended at the await until the callee returns
Call(parent, callee) ==
  IF Len(stack) >= MaxDepth
  THEN pc' = "diverged" /\ UNCHANGED <<stack, rv, err>>
  ELSE /\ stack' = Append([stack EXCEPT ![Len(stack)] = parent], callee)
       /\ rv' = NoRv
       /\ UNCHANGED <<pc, err>>

Return(val, inplace) ==
  /\ stack' = SubSeq(stack, 1, Len(stack) - 1)
  /\ rv' = [on |-> TRUE, val |-> val, inplace |-> inplace]
  /\ UNCHANGED <<pc, err>>

Throw(e) ==
  /\ pc' = "error"
  /\ err' = e
  /\ stack' = <<>>
  /\ rv' = NoRv

Stay(frame) ==
  /\ stack' = [stack EXCEPT ![Len(stack)] = frame]
  /\ rv' = NoRv
  /\ UNCHANGED <<pc, err>>

\* the caller's document after a step: what the outermost mergeRefs wrote to
\* ret is written to the document only if ret is the node it was given
InputAfter(d, st) ==
  IF st # <<>> /\ st[1].fn = "mergeRefs" /\ ~st[1].own THEN st[1].acc ELSE d

\* the answers of the network after a call of download that ended as d
AnswersAfter(a, d) ==
  IF d.url = "" \/ d.o = "hit" THEN a ELSE [a EXCEPT ![d.url] = @ \cup {d.o}]

\* yaml.readYAML(path): the parsed file, or the error of a missing file
ReadYAML(files, path) ==
  Let1(path, LAMBDA p1 :
    IF p1 \in DOMAIN files
    THEN [throws |-> FALSE, result |-> files[p1]]
    ELSE [throws |-> TRUE, result |-> Undef])

\* a download of url in the graph W: a URL the graph does not serve answers
\* with a non-success status at best
Fetch(W, c, url, o) ==
  Let1(url, LAMBDA url1 :
    IF url1 \in DOMAIN W.net
    THEN Download(c, url1, o, W.net[url1])
    ELSE Download(c, url1, IF o = "ok" THEN "notOk" ELSE o, Undef))

Init ==
  /\ w \in DOMAIN Worlds
  /\ config \in Worlds[w].cfgs
  /\ pc = "idle"
  /\ stack = <<>>
  /\ rv = NoRv
  /\ manager = <<>>
  /\ resolver = <<>>
  /\ cache = [u \in Urls |-> Undef]
  /\ out = Undef
  /\ err = ""
  /\ merges = 0
  /\ net = NetIdle
  /\ dl = NoDl
  /\ recursed = <<>>
  /\ input = Undef
  /\ prev = Undef
  /\ answers = [u \in Urls |-> {}]

---------------------------------------------------------------------------
(* Merger.merge *)

\* merger(params) reads the input document and calls merge, which starts the
\* first pass with a fresh ComponentManager
StartMerge ==
  /\ pc \in {"idle", "done", "error"}
  /\ merges < MaxMerges
  /\ merges' = merges + 1
  /\ pc' = "pass1"
  /\ manager' = <<>>
  /\ resolver' = <<>>
  /\ stack' = <<MergeRefsFrame(Worlds[w].files[RootPath], RootPath, <<"$">>)>>
  /\ rv' = NoRv
  /\ out' = Undef
  /\ err' = ""
  /\ net' = NetIdle
  /\ dl' = NoDl
  /\ recursed' = <<>>
  /\ input' = Worlds[w].files[RootPath]
  /\ prev' = out
  /\ UNCHANGED <<w, config, cache, answers>>

\* the resolver the second pass's ComponentManager is constructed with
SecondPassResolver(cs) == ComponentNameResolver(cs)

\* the first pass is over: resolve the names, start the second pass
ResolveNames ==
  /\ pc = "pass1" /\ stack = <<>> /\ rv.on
  /\ resolver' = SecondPassResolver(manager)
  /\ manager' = <<>>
  /\ stack' = <<MergeRefsFrame(input, RootPath, <<"$">>)>>
  /\ rv' = NoRv
  /\ pc' = "pass2"
  /\ recursed' = <<>>
  /\ UNCHANGED <<w, config, cache, out, err, merges, net, dl, input, prev, answers>>

\* a merge that returned the second pass's document as it is
FinishDocBare(doc, cs) == doc

\* doc.components = _merge(doc.components, this.manager.getComponentsSection())
FinishDoc(doc, cs) ==
  Let1(doc, LAMBDA doc1 :
    Put(doc1, "components",
        LodashMerge(Get(doc1, "components"), GetComponentsSection(cs))))

\* the second pass is over: merge returns the document
Finish ==
  /\ pc = "pass2" /\ stack = <<>> /\ rv.on
  /\ out' = FinishDoc(rv.val, manager)
  /\ pc' = "done"
  /\ rv' = NoRv
  /\ UNCHANGED <<w, config, stack, manager, resolver, cache, err, merges, net, dl, recursed,
                 input, prev, answers>>

---------------------------------------------------------------------------
(* Merger.mergeRefs *)

\* one turn of the loop over Object.entries(obj): return, or call the
\* handler of the next key
MergeRefs ==
  /\ Running /\ Top.fn = "mergeRefs" /\ Top.at = "loop" /\ ~rv.on
  /\ LET f == Top
         e == Ents(f.obj)[f.i]
     IN IF ~IsObject(f.obj) THEN Return(f.obj, f.obj)
        ELSE IF f.i > Len(Ents(f.obj)) THEN Return(f.acc, f.acc)
        ELSE IF IsRef(e[1], f.path)
        THEN Call([f EXCEPT !.at = "ref", !.key = e[1]],
                  DirectiveFrame("handleRef", f.acc, e[1], e[2], f.file, f.path))
        ELSE IF IsInclude(e[1])
        THEN Call([f EXCEPT !.at = "inc", !.key = e[1]],
                  DirectiveFrame("handleInclude", f.acc, e[1], e[2], f.file, f.path))
        ELSE Call([f EXCEPT !.at = "plain", !.key = e[1]],
                  MergeRefsFrame(e[2], f.file, Append(f.path, e[1])))
  /\ input' = InputAfter(input, stack')
  /\ UNCHANGED <<w, config, manager, resolver, cache, out, merges, net, dl, recursed, prev,
                 answers>>

\* lines 71-75: how the result of a plain key's recursion enters ret
MergePlain(ret, key, merged) ==
  Let2(ret, merged, LAMBDA ret1, merged1 :
    IF Kind(merged1) = "inc" /\ IsArray(ret1)
    THEN MergeOrOverwrite(ret1, merged1)
    ELSE Put(ret1, key, MergeOrOverwrite(Get(ret1, key), merged1)))

\* the handler of the current key returned: take its result, go to the next key
MergeRefsResume ==
  /\ Running /\ Top.fn = "mergeRefs" /\ Top.at # "loop" /\ rv.on
  /\ LET f == Top
         acc == IF f.at = "plain" THEN MergePlain(f.acc, f.key, rv.val)
                ELSE IF f.at = "ref" THEN rv.inplace
                ELSE rv.val
     IN Stay([f EXCEPT !.acc = acc, !.i = f.i + 1, !.at = "loop"])
  /\ input' = InputAfter(input, stack')
  /\ UNCHANGED <<w, config, manager, resolver, cache, out, merges, net, dl, recursed, prev,
                 answers>>

---------------------------------------------------------------------------
(* Merger.handleRef *)

\* lines 108-135: the absolute target of a reference and the file its
\* content is resolved in
RefTarget(val, file) ==
  Let2(ParseUrl(val), ParseUrl(file), LAMBDA pRef, pFile :
    IF pRef.isHttp THEN [url |-> pRef.href, next |-> pRef.hrefWoHash]
    ELSE IF pRef.isLocal
    THEN [url |-> pFile.hrefWoHash \o (IF pRef.hash = "#/" THEN "" ELSE pRef.hash),
          next |-> pFile.hrefWoHash]
    ELSE Let1(ResolveTarget(pFile, val), LAMBDA target :
           [url |-> target, next |-> ParseUrl(target).hrefWoHash]))

\* a handleRef that took every component for new
CmpExistsNever(cs, url) == FALSE

\* cmpExists = this.manager.exists(target), read before getOrCreate
CmpExists(cs, url) == Exists(cs, url)

\* the content ComponentManager.getOrCreate loads for a new component: the
\* target's document, fetched or read, sliced by the target's fragment
LoadTarget(W, c, url, o) ==
  Let1(ParseUrl(url), LAMBDA pUrl :
    IF pUrl.isHttp
    THEN Let1(Fetch(W, c, pUrl.hrefWoHash, o), LAMBDA d :
           [throws |-> d.throws, result |-> SliceObject(d.result, pUrl.hash),
            cache |-> d.cache, requested |-> d.requested,
            dl |-> DlOf(pUrl.hrefWoHash, o, d)])
    ELSE Let1(ReadYAML(W.files, pUrl.hrefWoHash), LAMBDA r :
           [throws |-> r.throws, result |-> SliceObject(r.result, pUrl.hash),
            cache |-> c, requested |-> FALSE, dl |-> NoDl]))

\* ComponentManager.getOrCreate(type, url): the components after the call
GetOrCreate(cs, res, type, url, content) ==
  Let2(cs, url, LAMBDA cs1, url1 :
    IF Exists(cs1, url1) THEN cs1
    ELSE Append(cs1, [type |-> type, name |-> ResolveName(res, url1), url |-> url1,
                      content |-> content]))

\* a handleRef that left the directive as it was written
RewrittenRefKept(cmp, val) == val

\* line 136: the value the directive is rewritten to
RewrittenRef(cmp, val) == Str(GetLocalRef(cmp))

\* lines 96-138 of handleRef for the frame f when a network request would
\* end in o.  k is "include" (the directive is resolved inline), "skip" (the
\* early return of line 117), "throw", "return" (the component existed) or
\* "recurse" (its content is resolved next)
RefStep(W, cs, res, c, f, o) ==
  Let1(Put(f.obj, f.key, MergeOrOverwrite(Get(f.obj, f.key), f.val)), LAMBDA obj1 :
  Let1(RefTarget(f.val[2], f.file), LAMBDA t :
  Let1(IF Exists(cs, t.url)
       THEN [throws |-> FALSE, result |-> Undef, cache |-> c, requested |-> FALSE,
             dl |-> NoDl]
       ELSE LoadTarget(W, c, t.url, o), LAMBDA ld :
  Let1(GetOrCreate(cs, res, GetRefType(f.path), t.url, ld.result), LAMBDA cs2 :
  Let1([k |-> "", obj |-> obj1, cs |-> cs, cache |-> c, requested |-> FALSE, dl |-> NoDl,
        url |-> t.url, next |-> t.next, content |-> Undef], LAMBDA r :
    IF ShouldInclude(GetRefType(f.path)) THEN [r EXCEPT !.k = "include"]
    ELSE IF ParseUrl(f.val[2]).isLocal /\ Exists(cs, f.val[2]) THEN [r EXCEPT !.k = "skip"]
    ELSE IF ld.throws
    THEN [r EXCEPT !.k = "throw", !.cache = ld.cache, !.requested = ld.requested,
                   !.dl = ld.dl]
    ELSE [r EXCEPT !.k = IF CmpExists(cs, t.url) THEN "return" ELSE "recurse",
                   !.obj = Put(obj1, f.key, RewrittenRef(cs2[CmpIndex(cs2, t.url)], f.val)),
                   !.cs = cs2, !.cache = ld.cache, !.requested = ld.requested,
                   !.dl = ld.dl,
                   !.content = cs2[CmpIndex(cs2, t.url)].content])))))

HandleRef ==
  /\ Running /\ Top.fn = "handleRef" /\ Top.at = "start"
  /\ \E o \in Outcomes :
     \E f \in {Top} :
     \E r \in {RefStep(Worlds[w], manager, resolver, cache, f, o)} :
       /\ o = "ok" \/ r.requested
       /\ cache' = r.cache
       /\ manager' = r.cs
       /\ net' = IF r.dl.url = "" THEN net ELSE NetAfter(net, r.dl.url, r.requested)
       /\ dl' = IF r.dl.url = "" THEN dl ELSE r.dl
       /\ recursed' = IF r.k = "recurse" THEN Append(recursed, r.url) ELSE recursed
       /\ CASE r.k = "include" ->
                 Call([f EXCEPT !.at = "inc", !.obj = r.obj],
                      DirectiveFrame("handleInclude", r.obj, f.key, f.val, f.file, f.path))
            [] r.k = "throw" -> Throw(IF r.dl.threw THEN "fetch" ELSE "load")
            [] r.k = "recurse" ->
                 Call([f EXCEPT !.at = "content", !.obj = r.obj, !.curl = r.url],
                      MergeRefsFrame(r.content, r.next, Append(f.path, f.key)))
            [] OTHER -> Return(r.obj, r.obj)
  /\ answers' = AnswersAfter(answers, dl')
  /\ input' = InputAfter(input, stack')
  /\ UNCHANGED <<w, config, resolver, out, merges, prev>>

\* the call handleRef waited for returned
HandleRefResume ==
  /\ Running /\ Top.fn = "handleRef" /\ Top.at # "start" /\ rv.on
  /\ LET f == Top
     IN IF f.at = "content"
        THEN /\ manager' = [manager EXCEPT ![CmpIndex(manager, f.curl)].content = rv.val]
             /\ Return(f.obj, f.obj)
        ELSE /\ Return(rv.inplace, rv.inplace)
             /\ UNCHANGED manager
  /\ input' = InputAfter(input, stack')
  /\ UNCHANGED <<w, config, resolver, cache, out, merges, net, dl, recursed, prev, answers>>

---------------------------------------------------------------------------
(* Merger.handleInclude *)

\* parsedTarget.hrefWoHash.includes("*")
HasGlob(path) == ParseUrl(path).name = "m*.yaml"

\* lines 164-206: where the included content comes from.  k is "skip" (the
\* early return), "throw" (readYAML failed), "fetchthrow" (download failed),
\* "glob" (the loop over the matched files follows) or "content"
IncludeSource(W, c, cs, f, o) ==
  Let1(ParseUrl(f.val[2]), LAMBDA pRef :
  Let1(ParseUrl(f.file), LAMBDA pFile :
  Let1(ParseUrl(ResolveTarget(pFile, f.val[2])), LAMBDA pt :
  Let1(IF pRef.isHttp THEN pRef.hrefWoHash ELSE pt.hrefWoHash, LAMBDA url :
  Let1(IF pRef.isHttp \/ pt.isHttp
       THEN Fetch(W, c, url, o)
       ELSE [throws |-> FALSE, result |-> Undef, alias |-> FALSE, cache |-> c,
             requested |-> FALSE],
       LAMBDA d :
  Let1(ReadYAML(W.files, IF pRef.isLocal THEN f.file ELSE pt.hrefWoHash), LAMBDA r :
  Let1([k |-> "skip", content |-> Undef, next |-> "", cache |-> c, dl |-> NoDl,
        requested |-> FALSE], LAMBDA none :
  Let1([none EXCEPT !.k = IF d.throws THEN "fetchthrow" ELSE "content",
                    !.content = d.result, !.next = url, !.cache = d.cache,
                    !.dl = DlOf(url, o, d), !.requested = d.requested], LAMBDA fetched :
  Let1([none EXCEPT !.k = IF r.throws THEN "throw" ELSE "content",
                    !.content = r.result,
                    !.next = IF pRef.isLocal THEN pFile.hrefWoHash ELSE pt.hrefWoHash],
       LAMBDA read :
    IF pRef.isHttp THEN fetched
    ELSE IF pRef.isLocal THEN (IF Exists(cs, f.val[2]) THEN none ELSE read)
    ELSE IF pt.isHttp THEN fetched
    ELSE IF HasGlob(pt.hrefWoHash)
    THEN [none EXCEPT !.k = "glob", !.content = EmptyMap, !.next = pt.hrefWoHash]
    ELSE read)))))))))

\* lines 207-208: slice the content and resolve it in the file it came from
ResolveIncluded(f, content, next) ==
  Call([f EXCEPT !.at = "merge", !.next = next],
       MergeRefsFrame(SliceObject(content, ParseUrl(f.val[2]).hash), next, f.path))

HandleInclude ==
  /\ Running /\ Top.fn = "handleInclude" /\ Top.at = "start"
  /\ \E o \in Outcomes :
     \E obj1 \in {Put(Top.obj, Top.key, MergeOrOverwrite(Get(Top.obj, Top.key), Top.val))} :
     \E f \in {[Top EXCEPT !.obj = obj1]} :
     \E src \in {IncludeSource(Worlds[w], cache, manager, f, o)} :
       /\ o = "ok" \/ src.requested
       /\ cache' = src.cache
       /\ net' = IF src.dl.url = "" THEN net ELSE NetAfter(net, src.dl.url, src.requested)
       /\ dl' = IF src.dl.url = "" THEN dl ELSE src.dl
       /\ CASE src.k = "skip" -> Return(obj1, obj1)
            [] src.k = "throw" -> Throw("load")
            [] src.k = "fetchthrow" -> Throw("fetch")
            [] src.k = "glob" ->
                 Stay([f EXCEPT !.at = "glob", !.content = src.content, !.gi = 1,
                                !.next = src.next])
            [] OTHER -> ResolveIncluded(f, src.content, src.next)
  /\ answers' = AnswersAfter(answers, dl')
  /\ input' = InputAfter(input, stack')
  /\ UNCHANGED <<w, config, manager, resolver, out, merges, recursed, prev>>

\* lines 196-199: include the next matched file, or leave the loop
HandleIncludeGlob ==
  /\ Running /\ Top.fn = "handleInclude" /\ Top.at = "glob" /\ ~rv.on
  /\ LET f == Top
         matched == Worlds[w].glob
         mf == matched[f.gi]
     IN IF f.gi <= Len(matched)
        THEN Call([f EXCEPT !.at = "globwait"],
                  DirectiveFrame("handleInclude", M1(f.key, Str(mf)), f.key, Str(mf), f.file,
                                 Append(f.path, BaseName(mf))))
        ELSE ResolveIncluded(f, f.content, f.next)
  /\ input' = InputAfter(input, stack')
  /\ UNCHANGED <<w, config, manager, resolver, cache, out, merges, net, dl, recursed, prev,
                 answers>>

\* lines 209-225: merge the resolved content into obj.  [throws, result]
IncludeInto(obj, key, merged, cfg) ==
  Let2(obj, merged, LAMBDA obj1, merged1 :
    IF IsArray(merged1)
    THEN IF IsArray(obj1) THEN [throws |-> FALSE, result |-> Concat(obj1, merged1)]
         ELSE IF Len(Ents(obj1)) = 1
         THEN [throws |-> FALSE, result |-> IncludedArrayFrom(merged1)]
         ELSE [throws |-> TRUE, result |-> Undef]
    ELSE Let1(ProcessInclude(key, merged1, cfg), LAMBDA p :
           IF p.throws THEN [throws |-> TRUE, result |-> Undef]
           ELSE [throws |-> FALSE, result |-> Del(LodashMerge(obj1, p.result), key)]))

\* the call handleInclude waited for returned
HandleIncludeResume ==
  /\ Running /\ Top.fn = "handleInclude" /\ Top.at \in {"globwait", "merge"} /\ rv.on
  /\ LET f == Top
         m == IncludeInto(f.obj, f.key, rv.val, config)
     IN IF f.at = "globwait"
        THEN Stay([f EXCEPT !.content = Put(f.content, BaseName(Worlds[w].glob[f.gi]), rv.val),
                            !.gi = f.gi + 1, !.at = "glob"])
        ELSE IF m.throws
        THEN Throw(IF IsArray(rv.val) THEN "array" ELSE "config")
        ELSE Return(m.result, IF IsArray(rv.val) THEN f.obj ELSE m.result)
  /\ input' = InputAfter(input, stack')
  /\ UNCHANGED <<w, config, manager, resolver, cache, out, merges, net, dl, recursed, prev,
                 answers>>

---------------------------------------------------------------------------

Next ==
  \/ StartMerge
  \/ MergeRefs
  \/ MergeRefsResume
  \/ HandleRef
  \/ HandleRefResume
  \/ HandleInclude
  \/ HandleIncludeGlob
  \/ HandleIncludeResume
  \/ ResolveNames
  \/ Finish

Spec == Init /\ [][Next]_vars

\* one thread of control runs a merge to its end
FairSpec == Spec /\ WF_vars(Next)


---------------------------------------------------------------------------
(* Properties of a merge: what the documents of a graph say, read          *)
(* independently of the engine, and what merge made of them                *)

Root == Worlds[w].files[RootPath]

\* the absolute target of a directive value written in `file`; "#/" and no
\* fragment both name the whole document
AbsoluteTarget(val, file) ==
  LET p == ParseUrl(val)
  IN IF p.isHttp THEN p.href
     ELSE IF p.isLocal THEN file \o (IF p.hash = "#/" THEN "" ELSE p.hash)
     ELSE ResolveTarget(ParseUrl(file), val)

\* the content an absolute target names in the graph W, as written
RawContent(W, t) ==
  LET p == ParseUrl(t)
  IN IF p.isHttp
     THEN IF p.hrefWoHash \in DOMAIN W.net THEN SliceObject(W.net[p.hrefWoHash], p.hash)
          ELSE Undef
     ELSE IF p.hrefWoHash \in DOMAIN W.files
          THEN SliceObject(W.files[p.hrefWoHash], p.hash)
          ELSE Undef

\* the reference directives of a document: <<path of the mapping, value>>
RECURSIVE RefSites(_, _)
RefSites(n, path) ==
  IF ~IsObject(n) THEN {}
  ELSE UNION {IF Ents(n)[i][1] = "$ref" /\ Kind(Ents(n)[i][2]) = "str"
              THEN {<<path, Ents(n)[i][2][2]>>}
              ELSE RefSites(Ents(n)[i][2], Append(path, Ents(n)[i][1]))
                : i \in DOMAIN Ents(n)}

\* the targets the content of target t refers to
TargetsOf(W, t) ==
  {AbsoluteTarget(s[2], ParseUrl(t).hrefWoHash) : s \in RefSites(RawContent(W, t), <<>>)}

\* every target reachable from the targets S by references
RECURSIVE ReachFrom(_, _)
ReachFrom(W, S) ==
  LET S2 == S \cup UNION {TargetsOf(W, t) : t \in S}
  IN IF S2 = S THEN S ELSE ReachFrom(W, S2)

\* the targets of W that lie on a cycle of references
CycleTargets(W) ==
  {t \in ReachFrom(W, TargetsOf(W, RootPath)) : t \in ReachFrom(W, TargetsOf(W, t))}

\* the documents a finished merge resolved reference directives in: the
\* root and the content of every component, as written and as merged
ResolvedDocs ==
  {[file |-> RootPath, raw |-> Root, merged |-> out]}
  \cup {[file |-> ParseUrl(manager[i].url).hrefWoHash,
         raw |-> RawContent(Worlds[w], manager[i].url),
         merged |-> manager[i].content] : i \in DOMAIN manager}

\* the reference directives merge resolved: where each was written, the
\* value it had, its absolute target and the value it has now
Directives ==
  UNION {{[at |-> <<d.file, s[1]>>, val |-> s[2], tgt |-> AbsoluteTarget(s[2], d.file),
           ptr |-> Get(Navigate(d.merged, s[1], 1), "$ref")]
            : s \in {x \in RefSites(d.raw, <<>>) :
                       Kind(Get(Navigate(d.merged, x[1], 1), "$ref")) = "str"}}
         : d \in ResolvedDocs}

\* the value is a pointer #/components/<class>/<name> and the output's
\* components section has the key <name> under <class>
EntryExists(ptr) ==
  /\ Kind(ptr) = "str"
  /\ IsPointer(ptr[2])
  /\ Has(Get(Get(out, HashPath(ptr[2])[1]), HashPath(ptr[2])[2]), HashPath(ptr[2])[3])

NoRepeat(sq) == \A i \in DOMAIN sq : \A j \in DOMAIN sq : sq[i] = sq[j] => i = j

\* the document an include value written in the root names
IncludedDoc(val) ==
  IF Kind(val) = "str" THEN RawContent(Worlds[w], AbsoluteTarget(val[2], RootPath)) ELSE Undef

\* the include keys of the mapping under the root's key k
IncludeKeys(k) == {ik \in Keys(Get(Root, k)) : Kind(Get(Root, k)) = "map" /\ IsInclude(ik)}

\* the configuration of an include class, if the configuration has one
ClassConfig(cfg, cls) == Get(Get(cfg, "include"), cls)

\* a pass is about to start: one mergeRefs frame, at its first key
PassStart ==
  /\ pc \in {"pass1", "pass2"}
  /\ Len(stack) = 1 /\ ~rv.on
  /\ stack[1].fn = "mergeRefs" /\ stack[1].at = "loop" /\ stack[1].i = 1

---------------------------------------------------------------------------
\* C1 (de-duplication): after a merge, any two reference directives with the
\* same absolute target, however each was spelled, hold the same pointer;
\* the registry holds exactly one component for that target and the
\* output's components section holds its entry.
C1_Deduplication ==
  pc = "done" =>
    \A d1 \in Directives : \A d2 \in Directives :
      d1.tgt = d2.tgt =>
        /\ d1.ptr = d2.ptr
        /\ Cardinality({i \in DOMAIN manager : manager[i].url = d1.tgt}) = 1
        /\ EntryExists(d1.ptr)
        /\ \A i \in DOMAIN manager :
             manager[i].url = d1.tgt => d1.ptr = Str(GetLocalRef(manager[i]))

\* two directives that spell one target differently were merged
C1_Witness ==
  /\ pc = "done"
  /\ \E d1 \in Directives : \E d2 \in Directives :
       d1.tgt = d2.tgt /\ d1.val # d2.val /\ d1.ptr = d2.ptr /\ EntryExists(d1.ptr)

\* C2 (cycle safety): a document graph whose references form a cycle is
\* merged to the end; no target's content is recursed into twice in one
\* pass, and the registry holds exactly one component for each target on
\* the cycle.
C2_CycleSafety ==
  /\ [](NoRepeat(recursed))
  /\ [](CycleTargets(Worlds[w]) # {} => pc # "diverged")
  /\ [](pc = "done" =>
          \A t \in CycleTargets(Worlds[w]) :
            Cardinality({i \in DOMAIN manager : manager[i].url = t}) = 1)
  /\ ((CycleTargets(Worlds[w]) # {} /\ pc = "pass1") ~> (pc = "done"))

\* a graph with a cycle was merged, each target on it recursed into once
C2_Witness ==
  /\ pc = "done"
  /\ CycleTargets(Worlds[w]) # {}
  /\ \A t \in CycleTargets(Worlds[w]) : \E i \in DOMAIN recursed : recursed[i] = t

\* C3 (conflict resolution): in the merged output the components of one
\* class have distinct names, and the first registered of the targets that
\* derive one candidate name keeps the candidate name.
C3_UniqueNames ==
  pc = "done" =>
    /\ \A i \in DOMAIN manager : \A j \in DOMAIN manager :
         (i # j /\ manager[i].type = manager[j].type) => manager[i].name # manager[j].name
    /\ \A i \in DOMAIN manager :
         (\A j \in 1..(i - 1) :
            manager[j].type # manager[i].type
            \/ CandidateName(manager[j].url) # CandidateName(manager[i].url))
         => manager[i].name = CandidateName(manager[i].url)

\* C4 (sequence include beside keys): when a mapping holds an include
\* directive that resolves to a sequence and at least one other key, before
\* or after the directive, merge raises the fatal error and returns no
\* document.
C4_SequenceIncludeIsFatal ==
  (/\ pc \in {"done", "error"}
   /\ \E k \in Keys(Root) : \E ik \in IncludeKeys(k) :
        /\ Len(Ents(Get(Root, k))) >= 2
        /\ IsArray(IncludedDoc(Get(Get(Root, k), ik))))
  => (pc = "error" /\ err = "array" /\ out = Undef)

\* C5 (mapping include beside keys): when a mapping holds an include
\* directive that resolves to a mapping and a sibling key the included
\* mapping also has, the merged mapping has the sibling's value, whether
\* the sibling is written before or after the directive.
C5_SiblingWins ==
  pc = "done" =>
    \A k \in Keys(Root) : \A ik \in IncludeKeys(k) :
      Kind(IncludedDoc(Get(Get(Root, k), ik))) = "map" =>
        \A x \in (Keys(Get(Root, k)) \cap Keys(IncludedDoc(Get(Get(Root, k), ik)))) :
          Get(Get(out, k), x) = Get(Get(Root, k), x)

\* C6 (unconfigured include class): an include whose class has no
\* configuration, the empty configuration included, is merged with its
\* content unchanged and raises no error.
C6_UnconfiguredClassUnchanged ==
  \A k \in Keys(Root) : \A ik \in IncludeKeys(k) :
    (/\ pc \in {"done", "error"}
     /\ Len(Ents(Get(Root, k))) = 1
     /\ GetIncludeClass(ik) # ""
     /\ ~Truthy(ClassConfig(config, GetIncludeClass(ik)))
     /\ Kind(IncludedDoc(Get(Get(Root, k), ik))) = "map")
    => (pc = "done" /\ Get(out, k) = IncludedDoc(Get(Get(Root, k), ik)))

\* C7 (download failure): a download whose request ends in a connection
\* error, a body-read error or a non-success status returns the empty
\* mapping and raises nothing; a failed fetch never aborts the merge.
C7_DownloadNeverRaises ==
  /\ dl.o \in {"connErr", "notOk", "bodyErr"} => (~dl.threw /\ dl.result = EmptyMap)
  /\ err # "fetch"

\* C8 (fetch cache): within one merge invocation no URL is requested from
\* the network more than once, whatever the first request returned.
C8_OneFetchPerUrl == \A u \in Urls : ~net[u].again

\* C9 (pass scope): at the start of every pass the registry and the fetch
\* cache are empty, so nothing a pass or an invocation registered or
\* fetched is visible to a later one.
C9_PassScoped ==
  PassStart => (manager = <<>> /\ \A u \in Urls : cache[u] = Undef)

SoleSequenceInclude(n) ==
  /\ Kind(n) = "map"
  /\ Len(Ents(n)) = 1
  /\ IsInclude(Ents(n)[1][1])
  /\ IsArray(IncludedDoc(Ents(n)[1][2]))

\* the elements of a sequence written in the root, each sole sequence include
\* among them replaced by the elements it names, in order
RECURSIVE Spliced(_, _)
Spliced(es, i) ==
  IF i > Len(es) THEN <<>>
  ELSE Let1(es[i][2], LAMBDA e :
         (IF SoleSequenceInclude(e)
            THEN Let1(Ents(IncludedDoc(Ents(e)[1][2])), LAMBDA inc :
                   [j \in DOMAIN inc |-> inc[j][2]])
            ELSE <<e>>) \o Spliced(es, i + 1))

\* the elements of a sequence node, in order
Elements(n) == [j \in DOMAIN Ents(n) |-> Ents(n)[j][2]]

\* C11 (sequence include): an include that names a sequence and is the only
\* key of its mapping replaces that mapping by the sequence; when the mapping
\* is an element of a sequence, the named elements take its place in the
\* enclosing sequence, after the elements before it and before the elements
\* after it, none nested and none lost.
C11_SequenceIncludeSpliced ==
  pc = "done" =>
    \A k \in Keys(Root) :
      /\ SoleSequenceInclude(Get(Root, k)) =>
           /\ IsArray(Get(out, k))
           /\ Elements(Get(out, k)) = Elements(IncludedDoc(Ents(Get(Root, k))[1][2]))
      /\ (/\ IsArray(Get(Root, k))
          /\ \E j \in DOMAIN Ents(Get(Root, k)) : SoleSequenceInclude(Ents(Get(Root, k))[j][2]))
         => /\ IsArray(Get(out, k))
            /\ Elements(Get(out, k)) = Spliced(Ents(Get(Root, k)), 1)

\* the include keys under the root's key k whose value is a glob pattern
GlobKeys(k) ==
  {ik \in IncludeKeys(k) :
     /\ Kind(Get(Get(Root, k), ik)) = "str"
     /\ HasGlob(AbsoluteTarget(Get(Get(Root, k), ik)[2], RootPath))}

\* the base names of the files the glob pattern of the graph matches
MatchedNames == {BaseName(Worlds[w].glob[i]) : i \in DOMAIN Worlds[w].glob}

\* the content of the matched file with base name b, post-processed once under
\* the class of the include key ik
MatchedContent(b, ik) ==
  Let1(CHOOSE i \in DOMAIN Worlds[w].glob : BaseName(Worlds[w].glob[i]) = b, LAMBDA i :
    ProcessInclude(ik, Worlds[w].files["/" \o Worlds[w].glob[i]], config).result)

\* C12 (glob include): a glob include yields a mapping with exactly one key
\* per matched file, the key being the file's base name without extension
\* and the value the file's content, post-processed once under the include's
\* class; no matched file is lost.
C12_GlobIncludeKeyedByBaseName ==
  pc = "done" =>
    \A k \in Keys(Root) : \A ik \in GlobKeys(k) :
      /\ Kind(Get(out, k)) = "map"
      /\ Keys(Get(out, k)) = MatchedNames
      /\ \A b \in MatchedNames : Get(Get(out, k), b) = MatchedContent(b, ik)

\* the network answered every request for one URL the same way, in every
\* invocation so far
SteadyNetwork == \A u \in Urls : Cardinality(answers[u]) <= 1

\* C14 (determinism): when merge is invoked twice, one invocation after the
\* other, on the same document graph and the network answers the same way
\* throughout, the second invocation returns a document equal to the first's,
\* component names and key order included, whatever the first left behind;
\* it raises an error and returns nothing exactly if the first did.
C14_Determinism ==
  (pc \in {"done", "error"} /\ merges = 2 /\ SteadyNetwork) => out = prev

\* the second invocation returned after it was served from what the first
\* left in the cache, and the output has named components
C14_Witness ==
  /\ pc = "done" /\ merges = 2 /\ prev # Undef /\ SteadyNetwork
  /\ \E u \in Urls : answers[u] = {"ok"} /\ Truthy(cache[u]) /\ ~net[u].done
  /\ Len(manager) >= 2

\* the name resolver saw the pair (class, target) in the first pass's registry
SeenInFirstPass(type, url) ==
  \E j \in DOMAIN resolver : resolver[j].type = type /\ resolver[j].url = url

\* C15 (two-pass protocol): no name is resolved while the first pass runs;
\* the second pass starts from an empty registry; and every pair of class and
\* absolute target the second pass registers was registered by the first
\* pass, so that its name was computed from the complete first-pass registry.
C15_TwoPassProtocol ==
  /\ pc = "pass1" => resolver = <<>>
  /\ (pc = "pass2" /\ PassStart) => manager = <<>>
  /\ pc \in {"pass2", "done"} =>
       \A i \in DOMAIN manager : SeenInFirstPass(manager[i].type, manager[i].url)

\* the frame is suspended at an await, until the call it made returns
Awaiting(fr) ==
  \/ fr.fn = "mergeRefs" /\ fr.at \in {"ref", "inc", "plain"}
  \/ fr.fn = "handleRef" /\ fr.at \in {"inc", "content"}
  \/ fr.fn = "handleInclude" /\ fr.at \in {"globwait", "merge"}

\* C16 (sequential async): at most one fetch, load or recursive resolution
\* is in progress at any time.  Every call but the innermost is suspended at
\* an await; a step changes no call but the innermost, so a mergeRefs call
\* does not go to its next sibling key before the directive it is resolving,
\* recursion included, has returned; a request is issued, and a component
\* registered, only by the innermost call, in the step that made the exists
\* check.
C16_SequentialAsync ==
  /\ [](\A j \in 1..(Len(stack) - 1) : Awaiting(stack[j]))
  /\ [][/\ \A j \in 1..(Len(stack) - 1) : j <= Len(stack') => stack'[j] = stack[j]
        /\ (Running /\ (manager' # manager \/ net' # net)) =>
             /\ Top.fn \in {"handleRef", "handleInclude"}
             /\ Len(manager') <= Len(manager) + 1
             /\ Cardinality({u \in Urls : net'[u] # net[u]}) <= 1
             /\ Len(manager') > Len(manager) =>
                  /\ Top.fn = "handleRef" /\ Top.at = "start"
                  /\ ~Exists(manager, manager'[Len(manager')].url)]_vars

\* a directive is being resolved by a recursion several calls deep, while a
\* mergeRefs call that has sibling keys left waits for it
C16_Witness ==
  /\ Running /\ Len(stack) >= 4
  /\ \E j \in 1..(Len(stack) - 1) :
       /\ stack[j].fn = "mergeRefs" /\ stack[j].at \in {"ref", "inc"}
       /\ stack[j].i < Len(Ents(stack[j].obj))
  /\ \E u \in Urls : net[u].done

\* a call of handleInclude is in progress inside a call of handleInclude with
\* the same arguments: the inner call does what the outer did, and so on
IncludeReentered ==
  \E i \in DOMAIN stack : \E j \in DOMAIN stack :
    /\ i < j
    /\ stack[i].fn = "handleInclude" /\ stack[j].fn = "handleInclude"
    /\ stack[i].key = stack[j].key /\ stack[i].val = stack[j].val
    /\ stack[i].file = stack[j].file /\ stack[i].path = stack[j].path

\* C17 (termination through includes): every merge invocation ends, with a
\* document or with an error, on every finite document graph, a graph with a
\* cycle through include directives included; no include is resolved inside
\* the resolution of the same include.
C17_IncludeTermination ==
  /\ [](~IncludeReentered)
  /\ (pc = "pass1") ~> (pc \in {"done", "error"})

\* C18 (cache isolation): the object download returns is never the cached
\* object itself, on a cache hit and on the call that fetched it alike, so
\* nothing a caller does to a returned document reaches the cache: the cache
\* holds, and every later download of a URL returns, the content that was
\* fetched for it.
C18_CacheIsolation ==
  /\ ~dl.alias
  /\ \A u \in Urls : cache[u] # Undef => (u \in DOMAIN Worlds[w].net /\ cache[u] = Worlds[w].net[u])
  /\ dl.o = "hit" => dl.result = Worlds[w].net[dl.url]

\* a later download of a URL was served from the cache, after the document
\* the first download returned was sliced and resolved by its caller
C18_Witness ==
  /\ dl.o = "hit" /\ IsObject(dl.result)
  /\ pc = "done" /\ out # Undef
  /\ \E i \in DOMAIN manager : manager[i].content # cache[dl.url]

\* C19 (input immutability): mergeRefs builds its result in a new object and
\* never writes to the node it is given, so the root document merge was
\* called with is, after the first pass and ever after, the document that
\* was read, and the second pass walks the same tree in the same key order.
C19_InputNotMutated ==
  /\ \A j \in DOMAIN stack : stack[j].fn = "mergeRefs" => stack[j].own
  /\ pc # "idle" => input = Root
  /\ (pc = "pass2" /\ PassStart) =>
       (stack[1].obj = Root /\ Ents(stack[1].obj) = Ents(Root))

\* the second pass is about to walk the root after the first pass resolved
\* directives of it into its own result
C19_Witness ==
  /\ pc = "pass2" /\ PassStart
  /\ Len(resolver) >= 2
  /\ stack[1].obj = input /\ stack[1].acc = EmptyMap

=============================================================================
